---- MODULE Spec2Model ----
(***************************************************************************)
(* Model of the IPPool admission validator                                 *)
(* (pkg/webhook/ippool/validator.go) together with the store of pools the  *)
(* API server keeps and the informer cache the validator lists from.       *)
(*                                                                         *)
(* The validator is a pure function of the object under admission and of   *)
(* the list returned by ipPoolCache.List; the actions below apply it and   *)
(* let the store persist what it accepted.  ipPoolCache.List reads an      *)
(* in-memory indexer and is taken to succeed; the order of the list it     *)
(* returns and the iteration order of the allocated map are unspecified    *)
(* in Go and are inputs of every action.                                   *)
(***************************************************************************)
EXTENDS Integers, Sequences, FiniteSets, TLC

VARIABLES store, cache, last

vars == <<store, cache, last>>

(***************************************************************************)
(* Bounds of the model.                                                    *)
(***************************************************************************)
MaxAddr == 2
MaxRanges == 2
MaxAlloc == 1
MaxPriority == 1
MaxScope == 2

Names == {"a", "b"}
Networks == {"", "n1"}
Projects == {"", "p1", "p2"}
Namespaces == {"", "ns1"}
Clusters == {"", "c1"}

Addr == 0..MaxAddr

NoPool == [name |-> ""]
NoIP == -1

(***************************************************************************)
(* Data: range descriptors, scope tuples, pools.                           *)
(***************************************************************************)
Desc == [rangeStart : Addr, rangeEnd : Addr]

Tuple == [project : Projects, namespace : Namespaces, cluster : Clusters]

SeqsUpTo(S, n) == UNION {[1..k -> S] : k \in 0..n}

Perms(S) == {f \in [1..Cardinality(S) -> S] : \A x \in S : \E i \in DOMAIN f : f[i] = x}

\* The strings used as keys of Status.Allocated: the addresses in dotted
\* form plus one string that is no address.
IPStrings == {ToString(a) : a \in Addr} \cup {"bad"}

\* net.ParseIP: the address a string denotes, or nil.
ParseIP(ipStr) ==
    IF \E a \in Addr : ToString(a) = ipStr
    THEN CHOOSE a \in Addr : ToString(a) = ipStr
    ELSE NoIP

\* A pool specification as a request carries it (name and deletion
\* timestamp are object metadata, added by MkPool).
MkSpec(ranges, allocated, priority, network, scope, global) ==
    [ranges |-> ranges, allocated |-> allocated, priority |-> priority,
     network |-> network, scope |-> scope, global |-> global]

MkPool(n, s, deleting) ==
    [name |-> n, ranges |-> s.ranges, allocated |-> s.allocated,
     priority |-> s.priority, network |-> s.network, scope |-> s.scope,
     global |-> s.global, deleting |-> deleting]

SpecOf(p) == MkSpec(p.ranges, p.allocated, p.priority, p.network, p.scope, p.global)

(***************************************************************************)
(* Errors: a kind and, where the message names a pool, that pool.          *)
(***************************************************************************)
Err(kind, ref) == [kind |-> kind, ref |-> ref]
OK == Err("ok", "")

(***************************************************************************)
(* Range model (allocator.Range / allocator.RangeSet).                     *)
(***************************************************************************)
\* ipam.LBRangesToAllocatorRangeSet: every descriptor becomes an address
\* range; a descriptor whose start lies after its end is malformed.
LBRangesToAllocatorRangeSet(ranges) ==
    IF \E i \in DOMAIN ranges : ranges[i].rangeStart > ranges[i].rangeEnd
    THEN [ok |-> FALSE, rs |-> <<>>]
    ELSE [ok |-> TRUE,
          rs |-> [i \in DOMAIN ranges |->
                    [start |-> ranges[i].rangeStart, end |-> ranges[i].rangeEnd]]]

RangeContains(r, ip) == r.start <= ip /\ ip <= r.end

\* allocator.Range.Overlaps: an end point of one lies in the other.
RangeOverlaps(r1, r2) ==
    \/ RangeContains(r1, r2.start)
    \/ RangeContains(r1, r2.end)
    \/ RangeContains(r2, r1.start)
    \/ RangeContains(r2, r1.end)

\* allocator.RangeSet.Overlaps: some pair of ranges overlaps.
RangeSetOverlaps(rs1, rs2) ==
    \E i \in DOMAIN rs1 : \E j \in DOMAIN rs2 : RangeOverlaps(rs1[i], rs2[j])

\* allocator.RangeSet.Contains
RangeSetContains(rs, ip) == \E i \in DOMAIN rs : RangeContains(rs[i], ip)

(***************************************************************************)
(* ipPoolCache.List                                                        *)
(***************************************************************************)
\* The pools of c in the order ord (a permutation of Names).
ListAll(c, ord) ==
    SelectSeq([i \in DOMAIN ord |-> c[ord[i]]], LAMBDA p : p # NoPool)

isGlobalIPPool(p) == p.global

\* List with the label selector global-ip-pool = true.
ListGlobal(c, ord) == SelectSeq(ListAll(c, ord), isGlobalIPPool)

First(S) == CHOOSE i \in S : \A j \in S : i <= j

(***************************************************************************)
(* Overlap checker and allocation checker.                                 *)
(***************************************************************************)
\* A variant of getOtherPoolsRanges that lists no other pool.
getOtherPoolsRangesNone(pools, myName) == [ok |-> TRUE, sets |-> <<>>]

\* getOtherPoolsRanges: the range sets of the listed pools other than
\* myName; fails when a listed pool's ranges do not parse.
getOtherPoolsRanges(pools, myName) ==
    LET others == SelectSeq(pools, LAMBDA p : p.name # myName)
    IN  IF \E i \in DOMAIN others : ~LBRangesToAllocatorRangeSet(others[i].ranges).ok
        THEN [ok |-> FALSE, sets |-> <<>>]
        ELSE [ok |-> TRUE,
              sets |-> [i \in DOMAIN others |->
                          LBRangesToAllocatorRangeSet(others[i].ranges).rs]]

\* A variant of checkRange that compares the ranges of r with one another
\* only.
checkRangeSelfOnly(r, others) ==
    IF \E i \in DOMAIN r : \E j \in DOMAIN r : i < j /\ RangeOverlaps(r[i], r[j])
    THEN Err("RangeOverlapSelf", "")
    ELSE OK

\* checkRange: overlaps among the ranges of r, then with the other sets.
checkRange(r, others) ==
    IF \E i \in DOMAIN r : \E j \in DOMAIN r : i < j /\ RangeOverlaps(r[i], r[j])
    THEN Err("RangeOverlapSelf", "")
    ELSE IF \E k \in DOMAIN others : RangeSetOverlaps(r, others[k])
    THEN Err("RangeOverlapOthers", "")
    ELSE OK

\* The verdict checkAllocated gives on one key of the map.
AllocatedErr(rs, ipStr) ==
    IF ParseIP(ipStr) = NoIP THEN Err("InvalidAddress", ipStr)
    ELSE IF ~RangeSetContains(rs, ParseIP(ipStr)) THEN Err("AllocatedExcluded", ipStr)
    ELSE OK

\* A variant of checkAllocated that parses the keys and does not test
\* containment.
checkAllocatedParseOnly(rs, aord) ==
    LET bad == {i \in DOMAIN aord : ParseIP(aord[i]) = NoIP}
    IN  IF bad = {} THEN OK ELSE Err("InvalidAddress", aord[First(bad)])

\* checkAllocated: the first failing key in the iteration order aord of
\* the allocated map.
checkAllocated(rs, aord) ==
    LET bad == {i \in DOMAIN aord : AllocatedErr(rs, aord[i]) # OK}
    IN  IF bad = {} THEN OK ELSE AllocatedErr(rs, aord[First(bad)])

(***************************************************************************)
(* Selector matcher (ipam.Matcher).                                        *)
(***************************************************************************)
Requirement(network, t) ==
    [network |-> network, project |-> t.project, namespace |-> t.namespace,
     cluster |-> t.cluster]

\* A scope tuple matches on every dimension it leaves non-empty.
TupleMatches(t, r) ==
    /\ t.project = "" \/ t.project = r.project
    /\ t.namespace = "" \/ t.namespace = r.namespace
    /\ t.cluster = "" \/ t.cluster = r.cluster

\* Matches: the network agrees (when the selector names one) and either
\* the scope list is empty or some tuple of it matches.
Matches(network, scope, r) ==
    /\ network = "" \/ network = r.network
    /\ \/ Len(scope) = 0
       \/ \E i \in DOMAIN scope : TupleMatches(scope[i], r)

(***************************************************************************)
(* Conflict resolver.                                                      *)
(***************************************************************************)
\* A variant of checkGlobalIPPool that skips every listed pool.
checkGlobalIPPoolSkipAll(globals, pool) == OK

\* checkGlobalIPPool: the first listed global pool with another name.
checkGlobalIPPool(globals, pool) ==
    LET other == {i \in DOMAIN globals : globals[i].name # pool.name}
    IN  IF other = {} THEN OK
        ELSE Err("DuplicateGlobal", globals[First(other)].name)

\* checkSelectorItself: each tuple, as a requirement, against the selector
\* made of the tuples after it (no scope at all for the last tuple).
checkSelectorItself(pool) ==
    LET n == Len(pool.scope)
        rest(i) == IF i # n THEN SubSeq(pool.scope, i + 1, n) ELSE <<>>
    IN  IF \E i \in 1..n :
             Matches(pool.network, rest(i), Requirement(pool.network, pool.scope[i]))
        THEN Err("ScopeOverlapSelf", "")
        ELSE OK

\* A variant of OtherErr without the equal-priority branch.
OtherErrScopeOnly(p, pool) ==
    IF p.name = pool.name \/ isGlobalIPPool(p) THEN OK
    ELSE IF p.priority = 0 /\ pool.priority = 0
            /\ \E i \in DOMAIN pool.scope :
                  Matches(p.network, p.scope, Requirement(pool.network, pool.scope[i]))
    THEN Err("ScopeOverlap", p.name)
    ELSE OK

\* The verdict of one iteration of checkSelectorWithOthers' loop.
OtherErr(p, pool) ==
    IF p.name = pool.name \/ isGlobalIPPool(p) THEN OK
    ELSE IF p.priority # 0 /\ p.priority = pool.priority
    THEN Err("DuplicatePriority", p.name)
    ELSE IF p.priority = 0 /\ pool.priority = 0
            /\ \E i \in DOMAIN pool.scope :
                  Matches(p.network, p.scope, Requirement(pool.network, pool.scope[i]))
    THEN Err("ScopeOverlap", p.name)
    ELSE OK

\* checkSelectorWithOthers: the first listed pool that conflicts.
checkSelectorWithOthers(pools, pool) ==
    LET bad == {i \in DOMAIN pools : OtherErr(pools[i], pool) # OK}
    IN  IF bad = {} THEN OK ELSE OtherErr(pools[First(bad)], pool)

\* checkSelector
checkSelector(c, ord, pool) ==
    IF isGlobalIPPool(pool) THEN checkGlobalIPPool(ListGlobal(c, ord), pool)
    ELSE IF checkSelectorItself(pool) # OK THEN Err("InvalidSelector", "")
    ELSE checkSelectorWithOthers(ListAll(c, ord), pool)

(***************************************************************************)
(* Verdicts of the three admission entry points.                           *)
(***************************************************************************)
CreateVerdict(c, ord, pool) ==
    IF Len(pool.ranges) = 0 THEN Err("EmptyRange", "")
    ELSE LET rs == LBRangesToAllocatorRangeSet(pool.ranges)
             others == getOtherPoolsRanges(ListAll(c, ord), pool.name)
         IN  IF ~rs.ok THEN Err("RangeParse", "")
             ELSE IF ~others.ok THEN Err("RangeParseOthers", "")
             ELSE IF checkRange(rs.rs, others.sets) # OK
             THEN checkRange(rs.rs, others.sets)
             ELSE checkSelector(c, ord, pool)

\* A variant of UpdateVerdict that checks the allocations before the
\* ranges.
UpdateVerdictAllocFirst(c, ord, aord, pool) ==
    IF pool.deleting THEN OK
    ELSE IF Len(pool.ranges) = 0 THEN Err("EmptyRange", "")
    ELSE LET rs == LBRangesToAllocatorRangeSet(pool.ranges)
             others == getOtherPoolsRanges(ListAll(c, ord), pool.name)
         IN  IF ~rs.ok THEN Err("RangeParse", "")
             ELSE IF ~others.ok THEN Err("RangeParseOthers", "")
             ELSE IF checkAllocated(rs.rs, aord) # OK
             THEN checkAllocated(rs.rs, aord)
             ELSE IF checkRange(rs.rs, others.sets) # OK
             THEN checkRange(rs.rs, others.sets)
             ELSE checkSelector(c, ord, pool)

UpdateVerdict(c, ord, aord, pool) ==
    IF pool.deleting THEN OK
    ELSE IF Len(pool.ranges) = 0 THEN Err("EmptyRange", "")
    ELSE LET rs == LBRangesToAllocatorRangeSet(pool.ranges)
             others == getOtherPoolsRanges(ListAll(c, ord), pool.name)
         IN  IF ~rs.ok THEN Err("RangeParse", "")
             ELSE IF ~others.ok THEN Err("RangeParseOthers", "")
             ELSE IF checkRange(rs.rs, others.sets) # OK
             THEN checkRange(rs.rs, others.sets)
             ELSE IF checkAllocated(rs.rs, aord) # OK
             THEN checkAllocated(rs.rs, aord)
             ELSE checkSelector(c, ord, pool)

\* A variant of DeleteVerdict that accepts every deletion.
DeleteVerdictAlways(pool) == OK

DeleteVerdict(pool) ==
    IF Cardinality(pool.allocated) # 0 THEN Err("NonEmptyPoolDeletion", "")
    ELSE OK

(***************************************************************************)
(* Requests the model admits.                                              *)
(***************************************************************************)
AllocSets == {al \in SUBSET IPStrings : Cardinality(al) <= MaxAlloc}

SingleRanges == {<<[rangeStart |-> a, rangeEnd |-> a]>> : a \in Addr}

FlowScopes ==
    SeqsUpTo({t \in Tuple : t.project = "p1" /\ t.namespace = "" /\ t.cluster = ""}, 1)

WellFormed == {d \in Desc : d.rangeStart <= d.rangeEnd}

\* Descriptors of at most two addresses, and the malformed ones that miss
\* being well-formed by one.
Narrow == {d \in Desc : d.rangeEnd - d.rangeStart \in {-1, 0, 1}}

\* Lists of descriptors in increasing order.
Before(d, e) ==
    \/ d.rangeStart < e.rangeStart
    \/ d.rangeStart = e.rangeStart /\ d.rangeEnd < e.rangeEnd

SortedRanges ==
    {r \in SeqsUpTo(Narrow, MaxRanges) :
        \A i \in DOMAIN r : \A j \in DOMAIN r : i < j => Before(r[i], r[j])}

\* Pools that differ in their ranges only.
RangeSpecs ==
    {MkSpec(r, {}, 0, "", <<>>, FALSE) : r \in SortedRanges}

\* Pools of one address, or of all addresses, that differ in their
\* allocations.
AllocSpecs ==
    {MkSpec(r, al, 0, "", <<>>, FALSE) :
        r \in SingleRanges \cup {<<[rangeStart |-> 0, rangeEnd |-> MaxAddr]>>},
        al \in AllocSets}

\* Pools of one range of at most two addresses.
LagSpecs == {MkSpec(<<d>>, {}, 0, "", <<>>, FALSE) : d \in WellFormed \cap Narrow}

\* Stored pools of one scope tuple that differ in their selector and
\* global marker.
StoredScopeSpecs ==
    {MkSpec(<<[rangeStart |-> 0, rangeEnd |-> 0]>>, {}, pr, nw, <<t>>, g) :
        pr \in 0..MaxPriority, nw \in Networks, t \in Tuple, g \in BOOLEAN}

\* Non-global pools that differ in their selector only.
ScopeSpecs ==
    {MkSpec(<<[rangeStart |-> 0, rangeEnd |-> 0]>>, {}, pr, nw, sc, FALSE) :
        pr \in 0..MaxPriority, nw \in Networks, sc \in SeqsUpTo(Tuple, MaxScope)}

\* Stored pools of one address that differ in priority and global marker.
StoredSpecs ==
    {MkSpec(r, {}, pr, "", <<>>, g) :
        r \in SingleRanges, pr \in 0..MaxPriority, g \in BOOLEAN}

\* Pools of one address that differ in priority, scope and global marker.
SelSpecs ==
    {MkSpec(r, {}, pr, "", sc, g) :
        r \in SingleRanges, pr \in 0..MaxPriority, sc \in FlowScopes, g \in BOOLEAN}

\* Requests that differ in every field at once.
AdmitSpecs ==
    {MkSpec(r, al, pr, nw, sc, g) :
        r \in SortedRanges, al \in AllocSets, pr \in 0..MaxPriority,
        nw \in Networks, sc \in FlowScopes, g \in BOOLEAN}

\* The orders List may return the pools in.  Every loop over the list
\* skips the entry of the pool under admission, so that entry is put first.
ListOrders(n) == {<<n>> \o o : o \in Perms(Names \ {n})}

(***************************************************************************)
(* The store, the informer cache and the last admission request.           *)
(***************************************************************************)
NoRequest == [op |-> "none", name |-> "", pool |-> NoPool, err |-> OK]

Empty == [n \in Names |-> NoPool]

Init ==
    /\ store = Empty
    /\ cache = store
    /\ last = NoRequest

\* What the store holds after a request for pool n with verdict v.
Stored(n, v, obj) == IF v = OK THEN [store EXCEPT ![n] = obj] ELSE store

\* Create: a pool that is not stored yet, and has nothing allocated yet,
\* is validated and, if accepted, persisted.
CreateReq(n, s, ord) ==
    /\ store[n] = NoPool
    /\ s.allocated = {}
    /\ LET pool == MkPool(n, s, FALSE)
           v == CreateVerdict(cache, ord, pool)
       IN  /\ store' = Stored(n, v, pool)
           /\ last' = [op |-> "Create", name |-> n, pool |-> pool, err |-> v]

\* Update: the new object keeps the deletion timestamp of the stored one.
UpdateReq(n, s, ord, aord) ==
    /\ store[n] # NoPool
    /\ LET pool == MkPool(n, s, store[n].deleting)
           v == UpdateVerdict(cache, ord, aord, pool)
       IN  /\ store' = Stored(n, v, pool)
           /\ last' = [op |-> "Update", name |-> n, pool |-> pool, err |-> v]

\* Delete: an accepted deletion removes the pool, or, when a finalizer
\* holds it (fin), only sets its deletion timestamp.
DeleteReq(n, fin) ==
    /\ store[n] # NoPool
    /\ LET v == DeleteVerdict(store[n])
           gone == IF fin THEN [store[n] EXCEPT !.deleting = TRUE] ELSE NoPool
       IN  /\ store' = Stored(n, v, gone)
           /\ last' = [op |-> "Delete", name |-> n, pool |-> store[n], err |-> v]

\* The finalizers of a pool whose deletion was requested are gone: the
\* store drops it.
Finalize(n) ==
    /\ store[n] # NoPool
    /\ store[n].deleting
    /\ store' = [store EXCEPT ![n] = NoPool]
    /\ last' = [op |-> "Finalize", name |-> n, pool |-> store[n], err |-> OK]

\* The informer cache is up to date with the store at every request.
Create(n, s, ord) == CreateReq(n, s, ord) /\ cache' = store'
Update(n, s, ord, aord) == UpdateReq(n, s, ord, aord) /\ cache' = store'
Delete(n, fin) == DeleteReq(n, fin) /\ cache' = store'
Remove(n) == Finalize(n) /\ cache' = store'

NextOver(Specs) ==
    \E n \in Names :
        \/ \E s \in Specs, ord \in ListOrders(n) : Create(n, s, ord)
        \/ \E s \in Specs, ord \in ListOrders(n) :
              \E aord \in Perms(s.allocated) : Update(n, s, ord, aord)
        \/ \E fin \in BOOLEAN : Delete(n, fin)
        \/ Remove(n)

NextRange == NextOver(RangeSpecs)
SpecRange == Init /\ [][NextRange]_vars

NextAlloc == NextOver(AllocSpecs)
SpecAlloc == Init /\ [][NextAlloc]_vars

NextSel == NextOver(SelSpecs)
SpecSel == Init /\ [][NextSel]_vars

(***************************************************************************)
(* One request against a store that accepted Creates (and deletions held   *)
(* by a finalizer) have built.                                             *)
(***************************************************************************)
\* The stores one more accepted Create leads to from st.
Extend(st) ==
    {[st EXCEPT ![n] = MkPool(n, s, d)] :
        <<n, s, d>> \in
            {x \in Names \X StoredSpecs \X BOOLEAN :
                /\ st[x[1]] = NoPool
                /\ \A ord \in ListOrders(x[1]) :
                      CreateVerdict(st, ord, MkPool(x[1], x[2], FALSE)) = OK}}

AdmitStores == {Empty} \cup Extend(Empty) \cup UNION {Extend(st) : st \in Extend(Empty)}

InitAdmit ==
    /\ store \in AdmitStores
    /\ cache = store
    /\ last = NoRequest

\* The three entry points, each on a store that has seen no request yet.
AdmitCreate ==
    /\ last = NoRequest
    /\ \E n \in Names, s \in AdmitSpecs :
          \E ord \in ListOrders(n) : Create(n, s, ord)

AdmitUpdate ==
    /\ last = NoRequest
    /\ \E n \in Names, s \in AdmitSpecs :
          \E ord \in ListOrders(n), aord \in Perms(s.allocated) :
              Update(n, s, ord, aord)

AdmitDelete ==
    /\ last = NoRequest
    /\ \E n \in Names, fin \in BOOLEAN : Delete(n, fin)

NextAdmit == AdmitCreate \/ AdmitUpdate \/ AdmitDelete
SpecAdmit == InitAdmit /\ [][NextAdmit]_vars

(***************************************************************************)
(* The informer cache lags the store: requests are validated against the   *)
(* cache as it is, and the cache catches up one pool at a time.            *)
(***************************************************************************)
CreateLagged(n, s, ord) == CreateReq(n, s, ord) /\ UNCHANGED cache
DeleteLagged(n, fin) == DeleteReq(n, fin) /\ UNCHANGED cache
RemoveLagged(n) == Finalize(n) /\ UNCHANGED cache

Sync(n) ==
    /\ cache[n] # store[n]
    /\ cache' = [cache EXCEPT ![n] = store[n]]
    /\ last' = [op |-> "Sync", name |-> n, pool |-> store[n], err |-> OK]
    /\ UNCHANGED store

NextLag ==
    \E n \in Names :
        \/ \E s \in LagSpecs, ord \in ListOrders(n) : CreateLagged(n, s, ord)
        \/ \E fin \in BOOLEAN : DeleteLagged(n, fin)
        \/ RemoveLagged(n)
        \/ Sync(n)

SpecLag == Init /\ [][NextLag]_vars

(***************************************************************************)
(* The two selector checks of a non-global pool, each applied once to a    *)
(* pool named "b" while a pool named "a" is stored.  The cross-pool check  *)
(* is applied to pools that declare a scope.                               *)
(***************************************************************************)
\* A stored pool either passed Create, or had its deletion requested and
\* was then updated (Update accepts any such object).
SelectorStores ==
    {[Empty EXCEPT !["a"] = MkPool("a", s, d)] :
        <<s, d>> \in
            {x \in StoredScopeSpecs \X BOOLEAN :
                \/ x[2]
                \/ CreateVerdict(Empty, <<"a", "b">>, MkPool("a", x[1], FALSE)) = OK}}

InitSelector ==
    /\ store \in SelectorStores
    /\ cache = store
    /\ last = NoRequest

CallCheckSelectorItself ==
    /\ last = NoRequest
    /\ \E s \in ScopeSpecs :
          LET pool == MkPool("b", s, FALSE)
          IN  last' = [op |-> "checkSelectorItself", name |-> "b", pool |-> pool,
                       err |-> checkSelectorItself(pool)]
    /\ UNCHANGED <<store, cache>>

CallCheckSelectorWithOthers ==
    /\ last = NoRequest
    /\ \E s \in {x \in ScopeSpecs : Len(x.scope) > 0}, ord \in ListOrders("b") :
          LET pool == MkPool("b", s, FALSE)
          IN  last' = [op |-> "checkSelectorWithOthers", name |-> "b", pool |-> pool,
                       err |-> checkSelectorWithOthers(ListAll(cache, ord), pool)]
    /\ UNCHANGED <<store, cache>>

NextSelector == CallCheckSelectorItself \/ CallCheckSelectorWithOthers
SpecSelector == InitSelector /\ [][NextSelector]_vars

(***************************************************************************)
(* Vocabulary of the claims.                                               *)
(***************************************************************************)
\* The addresses the declared ranges of p cover.
RangeAddrs(d) == {a \in Addr : d.rangeStart <= a /\ a <= d.rangeEnd}
Addresses(p) == UNION {RangeAddrs(p.ranges[i]) : i \in DOMAIN p.ranges}

SelfOverlap(p) ==
    \E i \in DOMAIN p.ranges : \E j \in DOMAIN p.ranges :
        i # j /\ RangeAddrs(p.ranges[i]) \cap RangeAddrs(p.ranges[j]) # {}

StoredNames == {n \in Names : store[n] # NoPool}
LiveNames == {n \in StoredNames : ~store[n].deleting}

\* The stored pools other than the one the last request was about.
OthersOfLast == {store[m] : m \in StoredNames \ {last.name}}

Admission == last.op \in {"Create", "Update"}

\* Concrete workload placements.
Placements ==
    [network : Networks \ {""}, project : Projects \ {""},
     namespace : Namespaces \ {""}, cluster : Clusters \ {""}]

TuplesOverlap(t, u) == \E r \in Placements : TupleMatches(t, r) /\ TupleMatches(u, r)

SelectorsOverlap(p, q) ==
    \E r \in Placements :
        Matches(p.network, p.scope, r) /\ Matches(q.network, q.scope, r)

(***************************************************************************)
(* C1                                                                      *)
(***************************************************************************)
\* C1 (as stated): no two distinct stored pools have ranges that share an
\* address, and no stored pool has two ranges of its own that share one.
C1_NoOverlapStored ==
    /\ \A n \in StoredNames : \A m \in StoredNames \ {n} :
          Addresses(store[n]) \cap Addresses(store[m]) = {}
    /\ \A n \in StoredNames : ~SelfOverlap(store[n])

\* C1 (amended): among the stored pools whose deletion has not been
\* requested, no two distinct pools have ranges that share an address, and
\* none has two ranges of its own that share one.
C1_NoOverlapLive ==
    /\ \A n \in LiveNames : \A m \in LiveNames \ {n} :
          Addresses(store[n]) \cap Addresses(store[m]) = {}
    /\ \A n \in LiveNames : ~SelfOverlap(store[n])

C1_Witness ==
    /\ last.op = "Update" /\ last.err = OK
    /\ LiveNames = Names
    /\ \E n \in Names : Len(store[n].ranges) = 2

(***************************************************************************)
(* C3                                                                      *)
(***************************************************************************)
GlobalOthersOfLast == {p \in OthersOfLast : p.global}

AllocatedInside(p) == \A ip \in p.allocated : ParseIP(ip) \in Addresses(p)

\* C4 (as stated): after every accepted Update, every allocated address of
\* the new object parses and lies in the new object's ranges.
C4_AllocatedInsideAnyUpdate ==
    (last.op = "Update" /\ last.err = OK)
        => (store[last.name] = last.pool /\ AllocatedInside(last.pool))

\* C4 (amended): after every accepted Update of a pool whose deletion has
\* not been requested, every allocated address of the new object parses
\* and lies in the new object's ranges.
C4_AllocatedInsideLiveUpdate ==
    (last.op = "Update" /\ last.err = OK /\ ~last.pool.deleting)
        => (store[last.name] = last.pool /\ AllocatedInside(last.pool))

C4_Witness ==
    /\ last.op = "Update" /\ last.err = OK /\ ~last.pool.deleting
    /\ last.pool.allocated # {}
    /\ Addresses(last.pool) # Addr

(***************************************************************************)
(* C5                                                                      *)
(***************************************************************************)
\* The stored non-global pools other than the last request's pool that
\* have its priority.
SamePriority ==
    {p \in OthersOfLast : ~p.global /\ p.priority = last.pool.priority}

C5Case ==
    /\ Admission /\ ~last.pool.global
    /\ last.pool.priority # 0 /\ SamePriority # {}

\* C5 (as stated): a Create or Update of a non-global pool whose non-zero
\* priority equals that of another stored non-global pool is rejected, and
\* what the cross-pool check reports is the duplicate-priority error
\* naming such a pool.
C5_DuplicatePriorityRejected ==
    C5Case => /\ last.err # OK
              /\ last.err.kind # "ScopeOverlap"
              /\ last.err.kind = "DuplicatePriority"
                    => last.err.ref \in {p.name : p \in SamePriority}

\* C5 (amended): the same for a Create and for an Update of a pool whose
\* deletion has not been requested.
C5_DuplicatePriorityRejectedLive ==
    (C5Case /\ ~last.pool.deleting)
        => /\ last.err # OK
           /\ last.err.kind # "ScopeOverlap"
           /\ last.err.kind = "DuplicatePriority"
                 => last.err.ref \in {p.name : p \in SamePriority}

C5_Witness ==
    /\ C5Case /\ ~last.pool.deleting
    /\ last.err.kind = "DuplicatePriority"
    /\ \E p \in SamePriority : p.network # last.pool.network

(***************************************************************************)
(* C6                                                                      *)
(***************************************************************************)
\* C6: Delete fails, with the non-empty-pool error and the pool left as it
\* was, exactly when the pool has allocations; otherwise it succeeds and
\* the pool is removed or marked for deletion.
C6_DeleteIffEmpty ==
    last.op = "Delete"
        => /\ last.pool.allocated # {}
                => /\ last.err.kind = "NonEmptyPoolDeletion"
                   /\ store[last.name] = last.pool
           /\ last.pool.allocated = {}
                => /\ last.err = OK
                   /\ store[last.name] = NoPool \/ store[last.name].deleting

C6_Witness ==
    /\ last.op = "Delete" /\ last.pool.allocated # {}
    /\ OthersOfLast # {}
    /\ last.err.kind = "NonEmptyPoolDeletion"

(***************************************************************************)
(* C2                                                                      *)
(***************************************************************************)
\* The stored non-global pools of priority 0 other than the last
\* request's pool.
Rivals == {p \in OthersOfLast : ~p.global /\ p.priority = 0}

\* C2: for a non-global candidate of priority 0, the cross-pool selector
\* check fails with the scope-overlap error when some stored non-global
\* pool of priority 0 matches a placement the candidate matches too,
\* whichever of the two is the wider one, and passes when none does.
C2_ScopeOverlapDetected ==
    (last.op = "checkSelectorWithOthers" /\ last.pool.priority = 0)
        => /\ (\E p \in Rivals : SelectorsOverlap(p, last.pool))
                 => last.err.kind = "ScopeOverlap"
           /\ (\A p \in Rivals : ~SelectorsOverlap(p, last.pool))
                 => last.err = OK

(***************************************************************************)
(* C7                                                                      *)
(***************************************************************************)
PairwiseDisjointScope(p) ==
    \A i \in DOMAIN p.scope : \A j \in DOMAIN p.scope :
        i # j => ~TuplesOverlap(p.scope[i], p.scope[j])

\* C7: Create of a non-global pool succeeds whenever its ranges are
\* non-empty, well-formed, disjoint from one another and from every stored
\* pool's ranges, no two tuples of its scope overlap, and for every stored
\* non-global pool the two priorities differ (so that at least one of
\* them is non-zero).
C7_CreateSucceeds ==
    (/\ last.op = "Create" /\ ~last.pool.global
     /\ Len(last.pool.ranges) > 0
     /\ \A i \in DOMAIN last.pool.ranges : last.pool.ranges[i] \in WellFormed
     /\ ~SelfOverlap(last.pool)
     /\ \A p \in OthersOfLast : Addresses(p) \cap Addresses(last.pool) = {}
     /\ PairwiseDisjointScope(last.pool)
     /\ \A p \in OthersOfLast : ~p.global => p.priority # last.pool.priority)
        => last.err = OK

(***************************************************************************)
(* C8                                                                      *)
(***************************************************************************)
\* C8: the self-scope check fails exactly when two tuples at distinct
\* positions of the scope list overlap; a list of one tuple passes.
C8_SelfCheckExact ==
    last.op = "checkSelectorItself"
        => (last.err # OK <=> ~PairwiseDisjointScope(last.pool))

(***************************************************************************)
(* C9                                                                      *)
(***************************************************************************)
RangesBad(p) ==
    \/ SelfOverlap(p)
    \/ \E q \in OthersOfLast : Addresses(q) \cap Addresses(p) # {}

RangesParse(p) ==
    /\ \A i \in DOMAIN p.ranges : p.ranges[i] \in WellFormed
    /\ \A q \in OthersOfLast : \A i \in DOMAIN q.ranges : q.ranges[i] \in WellFormed

SelectorErrs(p) == {checkSelector(store, ord, p) : ord \in ListOrders(p.name)}

\* What the checks that follow the range checks must report for p: the
\* allocation error if alloc is set and an allocation is bad, else the
\* verdict of the selector check.
AfterRanges(p, alloc) ==
    IF alloc /\ ~AllocatedInside(p)
    THEN last.err.kind \in {"InvalidAddress", "AllocatedExcluded"}
    ELSE last.err \in SelectorErrs(p)

InOrder(p, alloc) ==
    IF Len(p.ranges) = 0 THEN last.err.kind = "EmptyRange"
    ELSE IF ~RangesParse(p) THEN last.err.kind \in {"RangeParse", "RangeParseOthers"}
    ELSE IF RangesBad(p) THEN last.err.kind \in {"RangeOverlapSelf", "RangeOverlapOthers"}
    ELSE AfterRanges(p, alloc)

\* C9: the verdict of an Update of a pool whose deletion has not been
\* requested is that of the first failing check in the order empty
\* ranges, range overlap, allocation containment, selector conflict; the
\* verdict of a Create is that of the same order without the allocation
\* check.
C9_FirstFailureWins ==
    /\ (last.op = "Update" /\ ~last.pool.deleting) => InOrder(last.pool, TRUE)
    /\ last.op = "Create" => InOrder(last.pool, FALSE)

C9_Witness ==
    /\ last.op = "Update" /\ ~last.pool.deleting
    /\ RangesParse(last.pool) /\ RangesBad(last.pool)
    /\ ~AllocatedInside(last.pool)
    /\ OK \notin SelectorErrs(last.pool)
    /\ last.err.kind = "RangeOverlapOthers"

(***************************************************************************)
(* C10                                                                     *)
(***************************************************************************)
\* C10: a Create is accepted only if its ranges are disjoint from those of
\* every other pool in the list it observed; with a lagging cache that
\* list may miss a stored pool, and the state in which two stored pools
\* overlap although both passed Create is reachable (C10_Witness).
C10_DisjointFromObserved ==
    (last.op = "Create" /\ last.err = OK)
        => \A m \in Names \ {last.name} :
              cache[m] # NoPool => Addresses(cache[m]) \cap Addresses(last.pool) = {}

C10_Witness ==
    /\ last.op = "Create" /\ last.err = OK
    /\ cache = Empty
    /\ LiveNames = Names
    /\ \E m \in Names \ {last.name} :
          Addresses(store[m]) \cap Addresses(last.pool) # {}

====
